---- MODULE Spec2Model ----
(***************************************************************************)
(* Hydra Bot: the AI signal engine's scheduling loop and per-token         *)
(* pipeline, its start and stop calls, its candidate selection and its     *)
(* cached price lookup                                                     *)
(* (hydra-bot/ai_signal_engine/main.py), the trade executor                *)
(* (hydra_bot/backend/services/trading_service.py), the route resolver     *)
(* (hydra_bot/backend/services/jupiter_router.py), the Telegram bot's      *)
(* notification listener (hydra-bot/telegram_bot/main.py), the /trade      *)
(* command (hydra_bot/telegram_bot/commands/trade.py) and the trading      *)
(* engine's lifespan (hydra-bot/trading_engine/main.py).                   *)
(*                                                                         *)
(* Python floats are modelled in hundredths: 0.6 is 60, 1.0 is 100.        *)
(***************************************************************************)
EXTENDS Integers, Sequences, FiniteSets, TLC

\* ------------------------------------------------------------------ bounds

\* Cycles of the scheduling loop that are explored.
MaxCycles == 1

\* Calls of execute_trade that are explored.
MaxTasks == 3

\* ------------------------------------------------------------- plain values

\* Python's None: as the value of a string-valued member, and as the value of a
\* variable that otherwise holds an object (a dict, a Signal).
None == "None"
NoObject == [none |-> TRUE]

\* The members of SignalAction, as the prompt lists them for the model.
SignalAction ==
    {"STRONG_BUY", "BUY", "WEAK_BUY", "HOLD", "WEAK_SELL", "SELL", "STRONG_SELL"}

\* The values settings.MIN_SIGNAL_CONFIDENCE and settings.MAX_RISK_SCORE are
\* configured with in the explored deployments: every combination for one
\* candidate's pipeline, the system's defaults for the scheduling loop.
MinConfidenceValues == {0, 60, 90, 100}
MaxRiskValues == {50, 80, 90, 100}
DefaultMinConfidence == {60}
DefaultMaxRisk == {80}

\* The mints the token sources know.
Mints == {"m1", "m2"}

\* ------------------------------------------------- the reasoning model's reply

\* A JSON value of the reply: a key that is absent, null, a number or a string.
Absent == <<"absent", 0>>
Null == <<"null", 0>>
Num(n) == <<"num", n>>
Str(s) == <<"str", s>>

Obj(rec, conf, risk, hor) ==
    [outcome |-> "object", recommendation |-> rec, confidence |-> conf,
     risk_score |-> risk, time_horizon |-> hor]

\* What chat.completions.create and json.loads can produce: the call raises
\* (timeout, rate limit), the body is not JSON, the body is JSON but no object,
\* or the body is an object with any of these members.
ModelReplies ==
    { [outcome |-> o, recommendation |-> Absent, confidence |-> Absent,
       risk_score |-> Absent, time_horizon |-> Absent]
        : o \in {"raise", "malformed", "nonobject"} }
    \cup { Obj(Str(a), Num(90), Num(20), Str("short")) : a \in SignalAction }
    \cup { Obj(Str("BUY"), Num(90), Num(85), Str("short")),
           Obj(Str("STRONG_BUY"), Num(40), Num(10), Str("short")),
           Obj(Str("WEAK_BUY"), Num(60), Num(80), Str("long")),
           Obj(Str("SELL"), Num(90), Num(70), Str("short")),
           Obj(Str("HOLD"), Num(0), Num(100), Str("unknown")),
           Obj(Str("MOON"), Num(90), Num(20), Str("short")),
           Obj(Absent, Num(90), Num(20), Str("short")),
           Obj(Str("BUY"), Absent, Num(20), Str("short")),
           Obj(Str("BUY"), Num(90), Absent, Absent),
           Obj(Str("BUY"), Num(150), Num(20), Str("short")),
           Obj(Str("BUY"), Num(90), Num(0 - 10), Str("short")),
           Obj(Str("BUY"), Str("high"), Num(20), Str("short")),
           Obj(Str("BUY"), Num(90), Null, Str("short")),
           Obj(Null, Num(90), Num(20), Str("short")) }

\* The replies explored in the scheduling loop: the call raising, an accepted
\* BUY, a rejected STRONG_BUY and an unknown recommendation.
LoopReplies ==
    { r \in ModelReplies :
        \/ r.outcome = "raise"
        \/ /\ r.outcome = "object"
           /\ r.recommendation \in {Str("BUY"), Str("MOON")}
           /\ r.confidence = Num(90)
           /\ r.risk_score = Num(20)
        \/ /\ r.outcome = "object"
           /\ r.recommendation = Str("STRONG_BUY")
           /\ r.confidence = Num(40) }

\* dict.get(key, default)
DictGet(v, default) == IF v = Absent THEN default ELSE v

\* float(v) raises TypeError on None and ValueError on a non-numeric string.
FloatRaises(v) == v[1] # "num"
FloatOf(v) == v[2]

\* The value a JSON string or null has in Python.
PyValue(v) == IF v[1] = "null" THEN None ELSE v[2]

\* A variant of the except branch that answers with the defaults of the try
\* block's .get calls.
NeutralDefault ==
    [recommendation |-> "HOLD", confidence |-> 50, time_horizon |-> "medium",
     risk_score |-> 50]

\* The except branch of get_ai_analysis.
SafeDefault ==
    [recommendation |-> "HOLD", confidence |-> 0, time_horizon |-> "unknown",
     risk_score |-> 100]

\* The try block of get_ai_analysis raises: the call, json.loads, .get on a
\* body that is no dict, or one of the two float() conversions.
AiTryRaises(reply) ==
    \/ reply.outcome # "object"
    \/ FloatRaises(DictGet(reply.confidence, Num(50)))
    \/ FloatRaises(DictGet(reply.risk_score, Num(50)))

\* The dict get_ai_analysis returns once the prompt has been built.
GetAiAnalysis(reply) ==
    IF AiTryRaises(reply)
    THEN SafeDefault
    ELSE [recommendation |-> PyValue(DictGet(reply.recommendation, Str("HOLD"))),
          confidence |-> FloatOf(DictGet(reply.confidence, Num(50))),
          time_horizon |-> PyValue(DictGet(reply.time_horizon, Str("medium"))),
          risk_score |-> FloatOf(DictGet(reply.risk_score, Num(50)))]

\* Building the prompt formats market_cap, volume_24h and change_24h with
\* ":,.2f" before the try block: None raises TypeError out of get_ai_analysis.
PromptRaises(pd) == pd.market_cap = None

\* ------------------------------------------------------------ the risk gate

\* The literal of the risk check in generate_signal, in hundredths.
RiskLimit == 80

\* A variant of the list that leaves WEAK_BUY out.
BuyActionsWithoutWeak == {"STRONG_BUY", "BUY"}

\* The recommendations generate_signal maps to SignalType.BUY.
BuyActions == {"STRONG_BUY", "BUY", "WEAK_BUY"}

\* signal_type of generate_signal.
SignalTypeOf(action) == IF action \in BuyActions THEN "BUY" ELSE "SELL"

\* SignalAction(value) raises ValueError for a value that is no member.
SignalActionRaises(value) == value \notin SignalAction

\* The TokenAnalysis analyze_token builds from the snapshot and the decision.
TokenAnalysis(token, pd, ai) ==
    [token_mint |-> token.mint, price |-> pd.price, market_cap |-> pd.market_cap,
     ai_recommendation |-> ai.recommendation, ai_confidence |-> ai.confidence,
     time_horizon |-> ai.time_horizon, risk_score |-> ai.risk_score]

\* A variant of generate_signal without its risk check.
RiskNeverTooHigh(analysis) == FALSE

\* The two early returns of generate_signal.
ConfidenceTooLow(analysis, minConfidence) == analysis.ai_confidence < minConfidence
RiskTooHigh(analysis) == analysis.risk_score > RiskLimit

\* generate_signal: None (NoObject), or the Signal built from the analysis.
GenerateSignal(analysis, minConfidence) ==
    IF ConfidenceTooLow(analysis, minConfidence) THEN NoObject
    ELSE IF RiskTooHigh(analysis) THEN NoObject
    ELSE [token_mint |-> analysis.token_mint,
          type |-> SignalTypeOf(analysis.ai_recommendation),
          action |-> analysis.ai_recommendation,
          confidence |-> analysis.ai_confidence,
          price |-> analysis.price,
          timeframe |-> analysis.time_horizon,
          overall_risk |-> analysis.risk_score,
          market_cap |-> analysis.market_cap]

\* signal_record of save_signal: the row inserted into signals.
SignalRecord(signal) ==
    [token_mint |-> signal.token_mint, type |-> signal.type,
     action |-> signal.action, confidence |-> signal.confidence,
     price |-> signal.price, timeframe |-> signal.timeframe,
     overall_risk |-> signal.overall_risk, market_cap |-> signal.market_cap,
     status |-> "ACTIVE"]

\* signal_data of broadcast_signal: the payload published on trading_signals.
SignalData(signal) ==
    [token_mint |-> signal.token_mint, type |-> signal.type,
     action |-> signal.action, confidence |-> signal.confidence,
     price |-> signal.price, target_price |-> None, stop_loss |-> None,
     reasoning |-> "reasoning", timestamp |-> "utcnow"]

\* ------------------------------------------------------- candidate selection

\* How many of the deduplicated tokens one cycle analyzes.
MaxAnalyzed == 25

Token(m, s) == [mint |-> m, source |-> s]

\* What the tokens query returns, and what get_trending_tokens returns.
DbResults ==
    {<<>>, <<Token("m1", "db")>>, <<Token("m1", "db"), Token("m2", "db")>>}
TrendingResults ==
    {<<>>, <<Token("m2", "trending")>>, <<Token("m1", "trending")>>}

\* The keys of {token['mint']: token for token in all_tokens}, in dict order:
\* the order of first insertion.
FirstMints(all) ==
    LET first == {i \in 1..Len(all) : \A j \in 1..(i - 1) : all[j].mint # all[i].mint}
        nth(k) == CHOOSE i \in first : Cardinality({j \in first : j <= i}) = k
    IN [k \in 1..Cardinality(first) |-> all[nth(k)].mint]

\* The value the dict holds for a key: the last token inserted with it.
LastWithMint(all, m) ==
    LET i == CHOOSE j \in 1..Len(all) :
                 /\ all[j].mint = m
                 /\ \A k \in (j + 1)..Len(all) : all[k].mint # m
    IN all[i]

\* A variant without the [:25] slice.
TakeAll(s, n) == s

\* s[:n]
Take(s, n) == IF Len(s) <= n THEN s ELSE SubSeq(s, 1, n)

\* list(unique_tokens.values())[:25]
UniqueTokens(all) ==
    LET keys == FirstMints(all)
    IN Take([i \in 1..Len(keys) |-> LastWithMint(all, keys[i])], MaxAnalyzed)

\* get_tokens_to_analyze: any exception inside yields the empty list.
GetTokensToAnalyze(dbOk, db, trendingOk, trending) ==
    IF ~dbOk \/ ~trendingOk THEN <<>>
    ELSE UniqueTokens(db \o trending)

\* ------------------------------------------------------------ market snapshot

\* What get_price_data can return to analyze_token, with the path that produced
\* it: the primary source answered and the enrichment applied, the primary
\* answered and the enrichment did not apply, or the fallback values. The price
\* is a number; market_cap (with volume_24h and change_24h, which are set
\* together with it) is given by the kind of value it holds.
PriceOutcomes ==
    { [src |-> "enriched", data |-> [price |-> 1, market_cap |-> "fdv"]],
      [src |-> "partial", data |-> [price |-> 1, market_cap |-> None]],
      [src |-> "fallback", data |-> [price |-> 0, market_cap |-> "0"]] }

\* setex(cache_key, 30, ...): the seconds a cached snapshot lives.
CacheTtl == 30

\* The clock advances in steps of ten seconds.
ClockSteps == {10}

\* What the primary source answers: a body with a price for the mint, a body
\* without the mint (price_info.get('price', 0) gives 0), a body whose price is
\* null (float(None) raises), a status other than 200, or an exception.
PrimaryReplies == {"price", "noprice", "null", "status", "raise"}
PrimaryFails(p) == p \in {"null", "status", "raise"}
PrimaryPrice(p) == IF p = "price" THEN 1 ELSE 0

\* What the enrichment source answers: a first pair with an fdv, a first pair
\* without one (pair.get('fdv', 0) gives 0), a first pair whose fdv is null
\* (float(None) raises inside the inner try), no pairs, a status other than
\* 200, or an exception.
SecondaryReplies == {"fdv", "nofdv", "nullfdv", "nopairs", "status", "raise"}

\* The dict of the two fallback returns.
FallbackData == [price |-> 0, market_cap |-> "0"]

\* price_data after the primary source answered.
PrimaryData(p) == [price |-> PrimaryPrice(p), market_cap |-> None]

\* A variant that fills in zeros when the enrichment gave nothing.
EnrichOrZero(data, s) ==
    IF s = "fdv" THEN [data EXCEPT !.market_cap = "fdv"]
    ELSE [data EXCEPT !.market_cap = "0"]

\* price_data.update({...}) of the enrichment, when it is reached.
Enrich(data, s) ==
    IF s = "fdv" THEN [data EXCEPT !.market_cap = "fdv"]
    ELSE IF s = "nofdv" THEN [data EXCEPT !.market_cap = "0"]
    ELSE data

\* json.dumps(price_data) and json.loads(cached_data).
JsonDumps(data) == <<"price", data.price, "market_cap", data.market_cap>>
JsonLoads(text) == [price |-> text[2], market_cap |-> text[4]]

\* A variant that never finds the key.
CacheNeverHit(entry, t) == FALSE

\* A variant whose keys live thirty minutes.
CacheHitMinutes(entry, t) == entry # NoObject /\ t < entry.set_at + 60 * CacheTtl

\* A variant whose keys never expire.
CacheAlwaysHit(entry, t) == entry # NoObject

\* `if cached_data`: the key exists, its thirty seconds have not elapsed.
CacheHit(entry, t) == entry # NoObject /\ t < entry.set_at + CacheTtl

\* A variant that caches what it is about to return on every path after the
\* cache miss, the fallback included.
PriceDataCallCachingFallback(entry, t, readOk, p, s, writeOk) ==
    IF ~readOk
    THEN [cache_read |-> "raised", primary |-> 0, secondary |-> 0,
          wrote |-> FALSE, src |-> "fallback", result |-> FallbackData]
    ELSE IF CacheHit(entry, t)
    THEN [cache_read |-> "hit", primary |-> 0, secondary |-> 0,
          wrote |-> FALSE, src |-> "cache", result |-> JsonLoads(entry.text)]
    ELSE IF PrimaryFails(p)
    THEN [cache_read |-> "miss", primary |-> 1, secondary |-> 0,
          wrote |-> writeOk, src |-> "fallback", result |-> FallbackData]
    ELSE LET data == Enrich(PrimaryData(p), s)
         IN IF writeOk
            THEN [cache_read |-> "miss", primary |-> 1, secondary |-> 1,
                  wrote |-> TRUE,
                  src |-> IF data.market_cap = None THEN "partial" ELSE "enriched",
                  result |-> data]
            ELSE [cache_read |-> "miss", primary |-> 1, secondary |-> 1,
                  wrote |-> FALSE, src |-> "fallback", result |-> FallbackData]

\* One call of get_price_data with the key's entry, at time t, when the cache
\* read, the two sources and the cache write behave as given: what it
\* returns, the path that produced it, the queries it made to the primary and
\* to the enrichment source, and whether it wrote the key.
PriceDataCall(entry, t, readOk, p, s, writeOk) ==
    IF ~readOk
    THEN [cache_read |-> "raised", primary |-> 0, secondary |-> 0,
          wrote |-> FALSE, src |-> "fallback", result |-> FallbackData]
    ELSE IF CacheHit(entry, t)
    THEN [cache_read |-> "hit", primary |-> 0, secondary |-> 0,
          wrote |-> FALSE, src |-> "cache", result |-> JsonLoads(entry.text)]
    ELSE IF PrimaryFails(p)
    THEN [cache_read |-> "miss", primary |-> 1, secondary |-> 0,
          wrote |-> FALSE, src |-> "fallback", result |-> FallbackData]
    ELSE LET data == Enrich(PrimaryData(p), s)
         IN IF writeOk
            THEN [cache_read |-> "miss", primary |-> 1, secondary |-> 1,
                  wrote |-> TRUE,
                  src |-> IF data.market_cap = None THEN "partial" ELSE "enriched",
                  result |-> data]
            ELSE [cache_read |-> "miss", primary |-> 1, secondary |-> 1,
                  wrote |-> FALSE, src |-> "fallback", result |-> FallbackData]

\* The ways the tokens query and the trending feed can answer in the loop.
LoopAnswers ==
    [dbOk : BOOLEAN, db : DbResults,
     trendingOk : BOOLEAN, trending : TrendingResults]

\* The ways the cache and the two sources can behave during one call.
PriceBehaviours ==
    [readOk : BOOLEAN, primary : PrimaryReplies,
     secondary : SecondaryReplies, writeOk : BOOLEAN]

\* The behaviours followed through the scheduling loop: the cache works; the
\* primary source answers or raises; the enrichment applies.
LoopPriceBehaviours ==
    { b \in PriceBehaviours :
        b.readOk /\ b.writeOk /\ b.primary \in {"price", "raise"}
        /\ b.secondary = "fdv" }

\* asyncio.sleep(60) after the for loop, asyncio.sleep(30) in the outer except.
CycleDelay == 60
ErrorDelay == 30

\* --------------------------------------------------------------------- state

VARIABLES
    MIN_SIGNAL_CONFIDENCE,  \* settings.MIN_SIGNAL_CONFIDENCE
    MAX_RISK_SCORE,         \* settings.MAX_RISK_SCORE
    is_running,             \* AISignalEngine.is_running
    pc,                     \* where the scheduling loop is suspended
    tokens,                 \* the list the current cycle iterates over
    idx,                    \* position of the token being processed
    price_src,              \* path that produced price_data
    price_data,             \* analyze_token's price_data
    reply,                  \* the reasoning model's answer for this token
    ai_analysis,            \* analyze_token's ai_analysis
    signal,                 \* the Signal generate_signal returned
    persisted,              \* rows of the signals table, in insertion order
    published,              \* messages published on trading_signals, in order
    processed,              \* positions whose pipeline was started this cycle
    failed,                 \* positions whose pipeline raised this cycle
    cycle,                  \* cycles started so far
    analyzers,              \* progress of the two analyzer calls of this token
    selection_failed,       \* get_tokens_to_analyze caught an exception this cycle
    tasks,                  \* calls of execute_trade: token and progress
    submitted,              \* transactions sent to the chain, in order
    now,                    \* the clock, in seconds
    cache,                  \* the price_data:<mint> keys of the Redis cache
    calls,                  \* calls of get_price_data that have returned
    query,                  \* what the two token sources answer to one selection
    candidates,             \* what get_tokens_to_analyze returned for it
    routes,                 \* calls of get_best_jupiter_route
    loops,                  \* calls of start_signal_generation: the loop tasks
    lookup,                 \* one call of get_price_data and how its sources behave
    deliveries,             \* messages the notification listener has handled
    services,               \* the trading engine's global service instances
    lifespan,               \* where the trading engine's lifespan stands
    commands                \* /trade commands the bot has handled

engineVars ==
    <<is_running, pc, tokens, idx, price_src, price_data, reply, ai_analysis,
      signal, persisted, published, processed, failed, cycle, analyzers,
      selection_failed>>
settingsVars == <<MIN_SIGNAL_CONFIDENCE, MAX_RISK_SCORE>>
tradeVars == <<tasks, submitted>>
snapshotVars == <<now, cache, calls>>
selectionVars == <<query, candidates>>
routeVars == <<routes>>
loopVars == <<loops>>
lookupVars == <<lookup>>
notifyVars == <<deliveries>>
lifespanVars == <<services, lifespan>>
commandVars == <<commands>>
restVars == <<lookupVars, notifyVars, lifespanVars, commandVars>>
otherVars == <<tradeVars, snapshotVars, selectionVars, routeVars, loopVars, restVars>>
vars == <<settingsVars, engineVars, otherVars>>

tokenVars == <<price_src, price_data, reply, ai_analysis, signal>>

\* Neither analyzer has been called for the token at hand.
NoCalls == [technical |-> "idle", sentiment |-> "idle"]

\* __init__ of AISignalEngine.
EngineInit ==
    /\ MIN_SIGNAL_CONFIDENCE \in DefaultMinConfidence
    /\ MAX_RISK_SCORE \in DefaultMaxRisk
    /\ is_running = FALSE
    /\ pc = "idle"
    /\ tokens = <<>>
    /\ idx = 0
    /\ price_src = None
    /\ price_data = NoObject
    /\ reply = NoObject
    /\ ai_analysis = NoObject
    /\ signal = NoObject
    /\ persisted = <<>>
    /\ published = <<>>
    /\ processed = {}
    /\ failed = {}
    /\ cycle = 0
    /\ analyzers = NoCalls
    /\ selection_failed = FALSE

TradeInit ==
    /\ tasks = <<>>
    /\ submitted = <<>>

\* The cache holds no price_data key and get_price_data has not been called.
SnapshotInit ==
    /\ now = 0
    /\ cache = [m \in Mints |-> NoObject]
    /\ calls = <<>>

\* get_tokens_to_analyze has not been called.
SelectionInit ==
    /\ query = NoObject
    /\ candidates = <<>>

\* get_best_jupiter_route has not been called.
RouteInit == routes = <<>>

\* start_signal_generation has not been called.
LoopsInit == loops = <<>>

\* The service globals of the trading engine module, all None.
ServiceNames ==
    <<"database", "redis_client", "solana_client", "jupiter_service",
      "trading_service", "risk_service", "portfolio_service">>
LifespanAt(enabled) ==
    /\ services = [n \in 1..Len(ServiceNames) |-> "none"]
    /\ lifespan = [pc |-> "startup", step |-> 1, background |-> "none",
                   TRADING_ENABLED |-> enabled, health |-> None]
LifespanInit == LifespanAt(TRUE)

\* Nothing has been looked up, delivered or commanded yet.
LookupIdle == lookup = NoObject
NotifyInit == deliveries = <<>>
CommandInit == commands = <<>>
RestInit == LookupIdle /\ NotifyInit /\ LifespanInit /\ CommandInit

\* ------------------------------------------------- start_signal_generation

ClearToken ==
    /\ price_src' = None
    /\ price_data' = NoObject
    /\ reply' = NoObject
    /\ ai_analysis' = NoObject
    /\ signal' = NoObject

\* A variant whose for loop is not followed by asyncio.sleep(60).
NextTokenNoCooling(i) ==
    IF i < Len(tokens)
    THEN /\ ClearToken
         /\ idx' = i + 1
         /\ processed' = processed \cup {i + 1}
         /\ pc' = "price"
    ELSE /\ UNCHANGED tokenVars
         /\ idx' = i
         /\ processed' = processed
         /\ pc' = "select"

\* The for loop moves to the token after position i, whose iteration starts
\* with nothing of the previous one; or it falls out of the loop into
\* asyncio.sleep(60), the last iteration's values still in place.
NextToken(i) ==
    IF i < Len(tokens)
    THEN /\ ClearToken
         /\ idx' = i + 1
         /\ processed' = processed \cup {i + 1}
         /\ pc' = "price"
    ELSE /\ UNCHANGED tokenVars
         /\ idx' = i
         /\ processed' = processed
         /\ pc' = "sleep60"

\* A variant without the inner try: the exception reaches the outer except,
\* which abandons the for loop and sleeps 30 seconds.
TokenFailedAbortsCycle ==
    /\ failed' = failed \cup {idx}
    /\ UNCHANGED <<tokenVars, idx, processed>>
    /\ pc' = "sleep30"

\* A variant whose exception ends the task.
TokenFailedExitsLoop ==
    /\ failed' = failed \cup {idx}
    /\ UNCHANGED <<tokenVars, idx, processed>>
    /\ pc' = "stopped"

\* The inner except: the error is logged and the for loop continues.
TokenFailed ==
    /\ failed' = failed \cup {idx}
    /\ NextToken(idx)

\* startup(): the task runs start_signal_generation up to its first await.
Start ==
    /\ pc = "idle"
    /\ ~is_running
    /\ is_running' = TRUE
    /\ pc' = "select"
    /\ UNCHANGED <<tokens, idx, tokenVars, persisted, published, processed,
                   failed, cycle>>
    /\ UNCHANGED <<analyzers, selection_failed, settingsVars, otherVars>>

\* stop()
Stop ==
    /\ is_running
    /\ is_running' = FALSE
    /\ UNCHANGED <<pc, tokens, idx, tokenVars, persisted, published, processed,
                   failed, cycle>>
    /\ UNCHANGED <<analyzers, selection_failed, settingsVars, otherVars>>

\* A variant without the try of get_tokens_to_analyze and without the outer
\* except: a source that raises ends the task.
SelectPropagates(answers) ==
    /\ pc = "select"
    /\ \E q \in answers :
         /\ tokens' = GetTokensToAnalyze(q.dbOk, q.db, q.trendingOk, q.trending)
         /\ selection_failed' = (~q.dbOk \/ ~q.trendingOk)
         /\ cycle' = cycle + 1
         /\ failed' = {}
         /\ ClearToken
         /\ IF selection_failed'
            THEN /\ idx' = 0
                 /\ processed' = {}
                 /\ pc' = "crashed"
            ELSE IF tokens' # <<>>
            THEN /\ idx' = 1
                 /\ processed' = {1}
                 /\ pc' = "price"
            ELSE /\ idx' = 0
                 /\ processed' = {}
                 /\ pc' = "sleep60"
    /\ analyzers' = NoCalls
    /\ UNCHANGED <<is_running, persisted, published>>
    /\ UNCHANGED <<settingsVars, otherVars>>

\* tokens = await self.get_tokens_to_analyze(), the two sources answering in
\* one of the given ways, and the for loop's first step.
Select(answers) ==
    /\ pc = "select"
    /\ \E q \in answers :
         /\ tokens' = GetTokensToAnalyze(q.dbOk, q.db, q.trendingOk, q.trending)
         /\ selection_failed' = (~q.dbOk \/ ~q.trendingOk)
         /\ cycle' = cycle + 1
         /\ failed' = {}
         /\ ClearToken
         /\ IF tokens' # <<>>
            THEN /\ idx' = 1
                 /\ processed' = {1}
                 /\ pc' = "price"
            ELSE /\ idx' = 0
                 /\ processed' = {}
                 /\ pc' = "sleep60"
    /\ analyzers' = NoCalls
    /\ UNCHANGED <<is_running, persisted, published>>
    /\ UNCHANGED <<settingsVars, otherVars>>

\* price_data = await self.get_price_data(token['mint']), the cache and the
\* two sources behaving in one of the given ways; then analyze is called.
Price(behaviours) ==
    /\ pc = "price"
    /\ \E b \in behaviours :
         LET m == tokens[idx].mint
             c == PriceDataCall(cache[m], now, b.readOk, b.primary,
                                b.secondary, b.writeOk)
         IN /\ price_src' = c.src
            /\ price_data' = c.result
            /\ cache' = IF c.wrote
                        THEN [cache EXCEPT ![m] = [text |-> JsonDumps(c.result),
                                                   set_at |-> now]]
                        ELSE cache
    /\ pc' = "technical"
    /\ analyzers' = [technical |-> "running", sentiment |-> "idle"]
    /\ UNCHANGED <<is_running, tokens, idx, reply, ai_analysis, signal,
                   persisted, published, processed, failed, cycle>>
    /\ UNCHANGED <<selection_failed, settingsVars, tradeVars, selectionVars,
                   routeVars, loopVars, restVars, now, calls>>

\* technical_data = await self.technical_analyzer.analyze(...): the call
\* returns and get_sentiment is called, or it raises out of analyze_token.
Technical ==
    /\ pc = "technical"
    /\ \E ok \in BOOLEAN :
         IF ok
         THEN /\ pc' = "sentiment"
              /\ analyzers' = [technical |-> "returned", sentiment |-> "running"]
              /\ UNCHANGED <<tokens, idx, tokenVars, processed, failed>>
         ELSE /\ analyzers' = [analyzers EXCEPT !.technical = "raised"]
              /\ TokenFailed
              /\ UNCHANGED tokens
    /\ UNCHANGED <<is_running, persisted, published, cycle>>
    /\ UNCHANGED <<selection_failed, settingsVars, otherVars>>

\* social_data = await self.social_monitor.get_sentiment(...), then
\* get_ai_analysis builds the prompt and awaits the model.
Sentiment ==
    /\ pc = "sentiment"
    /\ \E ok \in BOOLEAN :
         /\ analyzers' = [analyzers EXCEPT
                             !.sentiment = IF ok THEN "returned" ELSE "raised"]
         /\ IF ok /\ ~PromptRaises(price_data)
            THEN /\ pc' = "ai"
                 /\ UNCHANGED <<tokens, idx, tokenVars, processed, failed>>
            ELSE /\ TokenFailed
                 /\ UNCHANGED tokens
    /\ UNCHANGED <<is_running, persisted, published, cycle>>
    /\ UNCHANGED <<selection_failed, settingsVars, otherVars>>

\* The model call ends with one of the replies: get_ai_analysis returns its dict.
AiAnalysis(replies) ==
    /\ pc = "ai"
    /\ \E r \in replies :
         /\ reply' = r
         /\ ai_analysis' = GetAiAnalysis(r)
    /\ pc' = "decided"
    /\ UNCHANGED <<is_running, tokens, idx, price_src, price_data, signal,
                   persisted, published, processed, failed, cycle>>
    /\ UNCHANGED <<analyzers, selection_failed, settingsVars, otherVars>>

\* analyze_token builds the TokenAnalysis and generate_signal gates it.
Gate ==
    /\ pc = "decided"
    /\ IF SignalActionRaises(ai_analysis.recommendation)
       THEN /\ TokenFailed
            /\ UNCHANGED tokens
       ELSE LET s == GenerateSignal(
                         TokenAnalysis(tokens[idx], price_data, ai_analysis),
                         MIN_SIGNAL_CONFIDENCE)
            IN IF s = NoObject
               THEN /\ NextToken(idx)
                    /\ UNCHANGED <<tokens, failed>>
               ELSE /\ signal' = s
                    /\ pc' = "save"
                    /\ UNCHANGED <<tokens, idx, price_src, price_data, reply,
                                   ai_analysis, processed, failed>>
    /\ UNCHANGED <<is_running, persisted, published, cycle>>
    /\ UNCHANGED <<analyzers, selection_failed, settingsVars, otherVars>>

\* A variant that keeps one row: the insert replaces what the table held.
SaveSignalReplacing ==
    /\ pc = "save"
    /\ \E dbOk \in BOOLEAN :
         persisted' = IF dbOk THEN <<SignalRecord(signal)>> ELSE persisted
    /\ pc' = "broadcast"
    /\ UNCHANGED <<is_running, tokens, idx, tokenVars, published, processed,
                   failed, cycle>>
    /\ UNCHANGED <<analyzers, selection_failed, settingsVars, otherVars>>

\* await self.save_signal(signal): the insert commits, or raises and is logged.
SaveSignal ==
    /\ pc = "save"
    /\ \E dbOk \in BOOLEAN :
         persisted' = IF dbOk THEN Append(persisted, SignalRecord(signal))
                      ELSE persisted
    /\ pc' = "broadcast"
    /\ UNCHANGED <<is_running, tokens, idx, tokenVars, published, processed,
                   failed, cycle>>
    /\ UNCHANGED <<analyzers, selection_failed, settingsVars, otherVars>>

\* A variant of broadcast_signal without its try: a failed publish raises into
\* the for loop's except.
BroadcastSignalPropagates ==
    /\ pc = "broadcast"
    /\ \E redisOk \in BOOLEAN :
         IF redisOk
         THEN /\ published' = Append(published, SignalData(signal))
              /\ NextToken(idx)
              /\ UNCHANGED failed
         ELSE /\ published' = published
              /\ TokenFailed
    /\ UNCHANGED <<is_running, tokens, persisted, cycle>>
    /\ UNCHANGED <<analyzers, selection_failed, settingsVars, otherVars>>

\* await self.broadcast_signal(signal): the publish succeeds, or raises and is
\* logged; then the for loop continues.
BroadcastSignal ==
    /\ pc = "broadcast"
    /\ \E redisOk \in BOOLEAN :
         published' = IF redisOk THEN Append(published, SignalData(signal))
                      ELSE published
    /\ NextToken(idx)
    /\ UNCHANGED <<is_running, tokens, persisted, failed, cycle>>
    /\ UNCHANGED <<analyzers, selection_failed, settingsVars, otherVars>>

\* A variant whose loop is `while True`: is_running is not read.
WakeIgnoringStop(limit) ==
    /\ pc \in {"sleep60", "sleep30"}
    /\ cycle < limit
    /\ now' = now + (IF pc = "sleep60" THEN CycleDelay ELSE ErrorDelay)
    /\ pc' = "select"
    /\ UNCHANGED <<is_running, tokens, idx, tokenVars, persisted, published,
                   processed, failed, cycle>>
    /\ UNCHANGED <<analyzers, selection_failed, settingsVars, tradeVars,
                   selectionVars, routeVars, loopVars, restVars, cache, calls>>

\* asyncio.sleep(60) or asyncio.sleep(30) returns, that many seconds after
\* it was called and no earlier, and the while condition is evaluated. The
\* loop is followed for `limit` cycles.
Wake(limit) ==
    /\ pc \in {"sleep60", "sleep30"}
    /\ is_running => cycle < limit
    /\ now' = now + (IF pc = "sleep60" THEN CycleDelay ELSE ErrorDelay)
    /\ pc' = IF is_running THEN "select" ELSE "stopped"
    /\ UNCHANGED <<is_running, tokens, idx, tokenVars, persisted, published,
                   processed, failed, cycle>>
    /\ UNCHANGED <<analyzers, selection_failed, settingsVars, tradeVars,
                   selectionVars, routeVars, loopVars, restVars,
                   cache, calls>>

\* The steps of the loop's task: each is the return of the call the task
\* awaits, up to its next await.
LoopSteps ==
    \/ Select(LoopAnswers)
    \/ Price(LoopPriceBehaviours)
    \/ Technical
    \/ Sentiment
    \/ AiAnalysis(LoopReplies)
    \/ Gate
    \/ SaveSignal
    \/ BroadcastSignal
    \/ Wake(MaxCycles)

EngineNext ==
    \/ Start
    \/ Stop
    \/ LoopSteps

Init ==
    EngineInit /\ TradeInit /\ SnapshotInit /\ SelectionInit /\ RouteInit /\ LoopsInit
    /\ RestInit
Next == EngineNext
Spec == Init /\ [][Next]_vars

\* Every call the loop awaits returns or raises in the end, and the event loop
\* then resumes the task. Nothing obliges anyone to call stop().
FairSpec == Spec /\ WF_vars(LoopSteps)

\* ------------------------------------------------------ the loop over cycles

\* Cycles followed when the loop is followed from one cycle into the next.
MaxRounds == 2

\* One candidate at most per cycle, accepted or rejected by the gate.
ScheduleAnswers ==
    { q \in LoopAnswers : q.db \in {<<>>, <<Token("m1", "db")>>} /\ q.trending = <<>> }
ScheduleReplies ==
    { r \in LoopReplies : r.outcome = "raise" \/ r.recommendation = Str("BUY") }

ScheduleSteps ==
    \/ Select(ScheduleAnswers)
    \/ Price(LoopPriceBehaviours)
    \/ Technical
    \/ Sentiment
    \/ AiAnalysis(ScheduleReplies)
    \/ Gate
    \/ SaveSignal
    \/ BroadcastSignal
    \/ Wake(MaxRounds)

ScheduleNext ==
    \/ Start
    \/ Stop
    \/ ScheduleSteps

Schedule == Init /\ [][ScheduleNext]_vars
FairSchedule == Schedule /\ WF_vars(ScheduleSteps)

\* ------------------------------------------------- one candidate's pipeline

\* The engine inside a cycle, about to process the only selected token, under
\* any configured thresholds.
PipelineInit ==
    /\ MIN_SIGNAL_CONFIDENCE \in MinConfidenceValues
    /\ MAX_RISK_SCORE \in MaxRiskValues
    /\ is_running = TRUE
    /\ pc = "price"
    /\ tokens \in {<<Token(m, "db")>> : m \in Mints}
    /\ idx = 1
    /\ price_src = None
    /\ price_data = NoObject
    /\ reply = NoObject
    /\ ai_analysis = NoObject
    /\ signal = NoObject
    /\ persisted = <<>>
    /\ published = <<>>
    /\ processed = {1}
    /\ failed = {}
    /\ cycle = 1
    /\ analyzers = NoCalls
    /\ selection_failed = FALSE
    /\ TradeInit
    /\ SnapshotInit
    /\ SelectionInit
    /\ RouteInit
    /\ LoopsInit
    /\ RestInit

PipelineNext ==
    \/ Price(PriceBehaviours)
    \/ Technical
    \/ Sentiment
    \/ AiAnalysis(ModelReplies)
    \/ Gate
    \/ SaveSignal
    \/ BroadcastSignal

Pipeline == PipelineInit /\ [][PipelineNext]_vars

\* ------------------------------------------------------------- execute_trade

\* The dict execute_trade returns from its try block and from its except block.
SuccessReceipt(token, tx) == [status |-> "success", token |-> token, tx_hash |-> tx]
ErrorReceipt == [status |-> "error", error |-> "exception"]

\* A call execute_trade(token, amount) that has not run to its return yet.
InFlight(t) == t.state = "pending"

\* A caller creates the coroutine execute_trade(token, amount). The function
\* keeps no record of the calls in progress and refuses none.
Dispatch(token) ==
    /\ Len(tasks) < MaxTasks
    /\ tasks' = Append(tasks, [token |-> token, state |-> "pending",
                               receipt |-> NoObject])
    /\ UNCHANGED submitted
    /\ UNCHANGED <<settingsVars, engineVars, snapshotVars, selectionVars, routeVars, loopVars, restVars>>

\* How the body of execute_trade can end: send_transaction returned a result,
\* an exception was raised before the transaction was sent, or send_transaction
\* raised after sending it.
SendOutcomes == {"result", "unsent", "raised"}

\* A variant that calls send_transaction a second time when the first raised.
ExecuteTradeRetrying(i) ==
    /\ i \in 1..Len(tasks)
    /\ InFlight(tasks[i])
    /\ \E sent \in SendOutcomes :
         IF sent = "result"
         THEN /\ submitted' = Append(submitted, tasks[i].token)
              /\ tasks' = [tasks EXCEPT ![i].state = "done",
                              ![i].receipt =
                                  SuccessReceipt(tasks[i].token, Len(submitted) + 1)]
         ELSE /\ submitted' = IF sent = "raised"
                              THEN submitted \o <<tasks[i].token, tasks[i].token>>
                              ELSE submitted
              /\ tasks' = [tasks EXCEPT ![i].state = "done",
                                        ![i].receipt = ErrorReceipt]
    /\ UNCHANGED <<settingsVars, engineVars, snapshotVars, selectionVars, routeVars, loopVars, restVars>>

\* The body of execute_trade runs (it awaits nothing): the wallet is loaded,
\* the transfer built and sent once; any exception becomes the error dict.
ExecuteTrade(i) ==
    /\ i \in 1..Len(tasks)
    /\ InFlight(tasks[i])
    /\ \E sent \in SendOutcomes :
         IF sent = "result"
         THEN /\ submitted' = Append(submitted, tasks[i].token)
              /\ tasks' = [tasks EXCEPT ![i].state = "done",
                              ![i].receipt =
                                  SuccessReceipt(tasks[i].token, Len(submitted) + 1)]
         ELSE /\ submitted' = IF sent = "raised"
                              THEN Append(submitted, tasks[i].token)
                              ELSE submitted
              /\ tasks' = [tasks EXCEPT ![i].state = "done",
                                        ![i].receipt = ErrorReceipt]
    /\ UNCHANGED <<settingsVars, engineVars, snapshotVars, selectionVars, routeVars, loopVars, restVars>>

TradeNext ==
    \/ \E token \in Mints : Dispatch(token)
    \/ \E i \in 1..MaxTasks : ExecuteTrade(i)

Trade == Init /\ [][TradeNext]_vars

\* ------------------------------------------------------------ get_price_data

\* Calls of get_price_data followed, and the last tick of the clock.
MaxCalls == 2
MaxTime == 40

\* await self.get_price_data(m), from its call to its return.
GetPriceData(m) ==
    /\ Len(calls) < MaxCalls
    /\ \E readOk \in BOOLEAN, p \in PrimaryReplies,
          s \in SecondaryReplies, writeOk \in BOOLEAN :
         LET c == PriceDataCall(cache[m], now, readOk, p, s, writeOk)
         IN /\ calls' = Append(calls, [mint |-> m, at |-> now, call |-> c])
            /\ cache' = IF c.wrote
                        THEN [cache EXCEPT ![m] = [text |-> JsonDumps(c.result),
                                                   set_at |-> now]]
                        ELSE cache
    /\ UNCHANGED now
    /\ UNCHANGED <<settingsVars, engineVars, tradeVars, selectionVars, routeVars, loopVars, restVars>>

\* Time passes between two calls.
Tick ==
    /\ now < MaxTime
    /\ \E d \in ClockSteps : now' = now + d
    /\ UNCHANGED <<cache, calls>>
    /\ UNCHANGED <<settingsVars, engineVars, tradeVars, selectionVars, routeVars, loopVars, restVars>>

SnapshotNext ==
    \/ \E m \in Mints : GetPriceData(m)
    \/ Tick

Snapshot == Init /\ [][SnapshotNext]_vars

\* One call of get_price_data, the cache and the two sources about to behave
\* in any of their ways: the key is absent, or was set at time 0 by a call
\* that cached an enriched snapshot.
LookupTimes == {0, 20, 40}
LookupInit ==
    /\ EngineInit /\ TradeInit /\ SelectionInit /\ RouteInit /\ LoopsInit
    /\ NotifyInit /\ LifespanInit /\ CommandInit
    /\ calls = <<>>
    /\ now \in LookupTimes
    /\ cache \in { [m \in Mints |-> IF m = "m1" THEN e ELSE NoObject] :
                      e \in { NoObject,
                              [text |-> JsonDumps(Enrich(PrimaryData("price"), "fdv")),
                               set_at |-> 0] } }
    /\ lookup \in [mint : {"m1"}, behaviour : PriceBehaviours,
                    returned : {FALSE}, call : {NoObject}]

\* The call runs to its return.
LookupReturns ==
    /\ lookup # NoObject
    /\ ~lookup.returned
    /\ LET b == lookup.behaviour
           c == PriceDataCall(cache[lookup.mint], now, b.readOk, b.primary,
                              b.secondary, b.writeOk)
       IN /\ lookup' = [lookup EXCEPT !.returned = TRUE, !.call = c]
          /\ cache' = IF c.wrote
                      THEN [cache EXCEPT ![lookup.mint] =
                                [text |-> JsonDumps(c.result), set_at |-> now]]
                      ELSE cache
    /\ UNCHANGED <<now, calls>>
    /\ UNCHANGED <<settingsVars, engineVars, tradeVars, selectionVars, routeVars,
                   loopVars, notifyVars, lifespanVars, commandVars>>

LookupNext == LookupReturns

Lookup == LookupInit /\ [][LookupNext]_vars

\* ----------------------------------------------------- get_tokens_to_analyze

\* The longest list a source answers with.
MaxRows == 26

RowCounts == {0, 1, 2, MaxRows - 1, MaxRows}

\* The mints of the trending list follow on from one of these.
TrendingOffsets == {0, 2, 20}

\* The rows of the tokens query, mints numbered from 1. SELECT DISTINCT is
\* over the whole row, so a mint with two price rows comes twice.
DbRows(n, twice) ==
    [i \in 1..n |-> Token(IF twice THEN (i + 1) \div 2 ELSE i, "db")]

\* The list get_trending_tokens returns.
TrendingRows(offset, k) == [i \in 1..k |-> Token(offset + i, "trending")]

Queries ==
    { [dbOk |-> dbOk, db |-> DbRows(n, twice),
       trendingOk |-> trendingOk, trending |-> TrendingRows(offset, k),
       returned |-> FALSE] :
        dbOk \in BOOLEAN, n \in RowCounts, twice \in BOOLEAN,
        trendingOk \in BOOLEAN, offset \in TrendingOffsets, k \in RowCounts }

\* await self.get_tokens_to_analyze(), from its call to its return.
GetTokens ==
    /\ ~query.returned
    /\ candidates' = GetTokensToAnalyze(query.dbOk, query.db,
                                        query.trendingOk, query.trending)
    /\ query' = [query EXCEPT !.returned = TRUE]
    /\ UNCHANGED <<settingsVars, engineVars, tradeVars, snapshotVars, routeVars, loopVars, restVars>>

SelectionNext == GetTokens

\* The engine about to select, the two sources about to answer with any query.
QueryInit ==
    /\ EngineInit /\ TradeInit /\ SnapshotInit /\ RouteInit /\ LoopsInit
    /\ RestInit
    /\ query \in Queries
    /\ candidates = <<>>

Selection == QueryInit /\ [][SelectionNext]_vars

\* ---------------------------------------------------- get_best_jupiter_route

\* Calls of get_best_jupiter_route followed.
MaxRouteCalls == 2

\* The amounts a route is asked for.
Amounts == {1, 1000000}

\* How requests.get(url, params=params) and response.json() can end: a quote,
\* an error body in JSON (the status is not looked at), a body that is not
\* JSON (response.json() raises), or an exception of requests.get.
RouteReplies == {"quote", "errorbody", "notjson", "exception"}

\* What get_best_jupiter_route returns: response.json(), or {"error": str(e)}.
RouteResult(r) ==
    IF r = "quote" THEN [json |-> "quote"]
    ELSE IF r = "errorbody" THEN [json |-> "error body"]
    ELSE [error |-> "str(e)"]

\* get_best_jupiter_route(input_mint, output_mint, amount) is called and
\* sends its one request; requests.get is given no timeout.
ResolveRoute(input_mint, output_mint, amount) ==
    /\ Len(routes) < MaxRouteCalls
    /\ \A i \in 1..Len(routes) : routes[i].state = "done"
    /\ routes' = Append(routes, [inputMint |-> input_mint,
                                 outputMint |-> output_mint,
                                 amount |-> amount, slippageBps |-> 50,
                                 state |-> "waiting", requests |-> 1,
                                 reply |-> None, result |-> NoObject])
    /\ UNCHANGED <<settingsVars, engineVars, tradeVars, snapshotVars, selectionVars,
                   loopVars, restVars>>

\* The request ends and the function returns. Nothing else ends the wait.
RouteReturns(i) ==
    /\ i \in 1..Len(routes)
    /\ routes[i].state = "waiting"
    /\ \E r \in RouteReplies :
         routes' = [routes EXCEPT ![i].state = "done", ![i].reply = r,
                                  ![i].result = RouteResult(r)]
    /\ UNCHANGED <<settingsVars, engineVars, tradeVars, snapshotVars, selectionVars,
                   loopVars, restVars>>

RouteNext ==
    \/ \E input_mint \in Mints, output_mint \in Mints, amount \in Amounts :
         ResolveRoute(input_mint, output_mint, amount)
    \/ \E i \in 1..MaxRouteCalls : RouteReturns(i)

Route == Init /\ [][RouteNext]_vars

\* ------------------------------------------- start_signal_generation and stop

\* Calls of start_signal_generation followed, and cycles followed per loop.
MaxLoops == 3
MaxLoopCycles == 2

\* What the loops below leave alone.
loopFrame ==
    <<pc, tokens, idx, tokenVars, persisted, published, processed, failed,
      cycle, analyzers, selection_failed, settingsVars, tradeVars,
      snapshotVars, selectionVars, routeVars, restVars>>

\* A loop that is neither finished nor a call that returned at once.
Active(l) == l.pc \in {"selecting", "processing", "cooling"}

\* start_signal_generation() is called (as a task of its own, as startup
\* does): it returns at once when is_running is set, else it sets is_running,
\* enters the while loop and awaits get_tokens_to_analyze.
StartSignalGeneration ==
    /\ Len(loops) < MaxLoops
    /\ IF is_running
       THEN /\ loops' = Append(loops, [pc |-> "returned", cycles |-> 0])
            /\ UNCHANGED is_running
       ELSE /\ is_running' = TRUE
            /\ loops' = Append(loops, [pc |-> "selecting", cycles |-> 1])
    /\ UNCHANGED loopFrame

\* stop(): self.is_running = False. No task is cancelled or awaited.
StopEngine ==
    /\ is_running' = FALSE
    /\ UNCHANGED <<loops, loopFrame>>

\* get_tokens_to_analyze returns to loop i, which enters the for loop.
LoopSelects(i) ==
    /\ i \in 1..Len(loops)
    /\ loops[i].pc = "selecting"
    /\ loops' = [loops EXCEPT ![i].pc = "processing"]
    /\ UNCHANGED <<is_running, loopFrame>>

\* Loop i has been through its tokens and awaits asyncio.sleep.
LoopProcesses(i) ==
    /\ i \in 1..Len(loops)
    /\ loops[i].pc = "processing"
    /\ loops' = [loops EXCEPT ![i].pc = "cooling"]
    /\ UNCHANGED <<is_running, loopFrame>>

\* The sleep of loop i returns and its while condition reads is_running,
\* whoever set it.
LoopWakes(i) ==
    /\ i \in 1..Len(loops)
    /\ loops[i].pc = "cooling"
    /\ is_running => loops[i].cycles < MaxLoopCycles
    /\ loops' = IF is_running
                THEN [loops EXCEPT ![i].pc = "selecting",
                                   ![i].cycles = loops[i].cycles + 1]
                ELSE [loops EXCEPT ![i].pc = "stopped"]
    /\ UNCHANGED <<is_running, loopFrame>>

LoopsNext ==
    \/ StartSignalGeneration
    \/ StopEngine
    \/ \E i \in 1..MaxLoops : LoopSelects(i)
    \/ \E i \in 1..MaxLoops : LoopProcesses(i)
    \/ \E i \in 1..MaxLoops : LoopWakes(i)

Loops == Init /\ [][LoopsNext]_vars

\* ------------------------------------------ the trading_signals notifications

\* Messages on the channel that are followed.
MaxPublished == 2

\* json.dumps(signal_data) of the engine and json.loads(message['data']) of the
\* listener: the members in the order of the dict, and the dict they give.
PayloadOrder ==
    <<"token_mint", "type", "action", "confidence", "price", "target_price",
      "stop_loss", "reasoning", "timestamp">>
PayloadDumps(d) ==
    [i \in 1..Len(PayloadOrder) |-> <<PayloadOrder[i], d[PayloadOrder[i]]>>]
PayloadLoads(text) ==
    [k \in {text[i][1] : i \in 1..Len(text)} |->
        text[CHOOSE i \in 1..Len(text) : text[i][1] = k][2]]

\* A message that is not JSON, and the test that tells a payload from it.
NotJson == [raw |-> "not json"]
IsPayload(m) == "raw" \notin DOMAIN m

\* The keys broadcast_signal_notification subscripts signal_data with, for the
\* text and for the two buttons.
ConsumerKeys ==
    {"token_symbol", "action", "price", "target_price", "stop_loss",
     "confidence", "reasoning", "id"}

\* Building signal_text and keyboard raises KeyError.
MessageRaises(data) == ~(ConsumerKeys \subseteq DOMAIN data)

\* What get_users_with_signal_notifications returns.
UserLists == {<<>>, <<"u1">>, <<"u1", "u2">>}

\* Signals the engine generates and publishes.
NotifySignals ==
    { GenerateSignal(
          TokenAnalysis(Token(m, "db"), [price |-> 1, market_cap |-> "fdv"],
                        GetAiAnalysis(Obj(Str(a), Num(90), Num(20), Str("short")))),
          60) : m \in Mints, a \in {"BUY", "SELL"} }

\* What the listener and its publishers leave alone.
notifyFrame ==
    <<is_running, pc, tokens, idx, tokenVars, persisted, processed, failed,
      cycle, analyzers, selection_failed, settingsVars, tradeVars,
      snapshotVars, selectionVars, routeVars, loopVars, lookupVars,
      lifespanVars, commandVars>>

\* broadcast_signal publishes the payload of a generated signal.
PublishSignal(sig) ==
    /\ Len(published) < MaxPublished
    /\ published' = Append(published, SignalData(sig))
    /\ UNCHANGED <<deliveries, notifyFrame>>

\* Some other client of the Redis server publishes text that is not JSON.
PublishNotJson ==
    /\ Len(published) < MaxPublished
    /\ published' = Append(published, NotJson)
    /\ UNCHANGED <<deliveries, notifyFrame>>

\* The send_message calls of the for loop over users, each in its own try.
SendAttempts(users, oks) ==
    [k \in 1..Len(users) |-> [user |-> users[k], sent |-> oks[k]]]

\* One turn of the `async for` of start_notifications for the next message of
\* the channel: json.loads, then broadcast_signal_notification, which fetches
\* the users, builds the text and the keyboard and sends to each user; any
\* exception is logged by the listener's except and the loop goes on.
ListenerHandles ==
    /\ Len(deliveries) < Len(published)
    /\ LET message == published[Len(deliveries) + 1]
       IN IF ~IsPayload(message)
          THEN deliveries' = Append(deliveries,
                   [error |-> "json", users |-> NoObject, attempts |-> <<>>])
          ELSE LET data == PayloadLoads(PayloadDumps(message))
               IN \E usersOk \in BOOLEAN, users \in UserLists :
                    IF ~usersOk
                    THEN deliveries' = Append(deliveries,
                             [error |-> "users", users |-> NoObject,
                              attempts |-> <<>>])
                    ELSE IF MessageRaises(data)
                    THEN deliveries' = Append(deliveries,
                             [error |-> "KeyError", users |-> users,
                              attempts |-> <<>>])
                    ELSE \E oks \in [1..Len(users) -> BOOLEAN] :
                           deliveries' = Append(deliveries,
                               [error |-> None, users |-> users,
                                attempts |-> SendAttempts(users, oks)])
    /\ UNCHANGED <<published, notifyFrame>>

NotifyNext ==
    \/ \E sig \in NotifySignals : PublishSignal(sig)
    \/ PublishNotJson
    \/ ListenerHandles

Notify == Init /\ [][NotifyNext]_vars

\* ------------------------------------------- the trading engine's lifespan

\* The services in the order the shutdown block stops them: trading, risk,
\* portfolio, jupiter, solana, redis, database.
ShutdownOrder == <<5, 6, 7, 4, 3, 2, 1>>

\* What the lifespan leaves alone.
lifespanFrame ==
    <<settingsVars, engineVars, tradeVars, snapshotVars, selectionVars,
      routeVars, loopVars, lookupVars, notifyVars, commandVars>>

\* Startup constructs service k and awaits its connect() or initialize(). A
\* call that raises leaves the global assigned; the except logs and re-raises,
\* which ends the lifespan. After the last service the background tasks are
\* scheduled and the lifespan yields.
StartService(k) ==
    /\ lifespan.pc = "startup"
    /\ lifespan.step = k
    /\ k \in 1..Len(ServiceNames)
    /\ \E ok \in BOOLEAN :
         IF ~ok
         THEN /\ services' = [services EXCEPT ![k] = "created"]
              /\ lifespan' = [lifespan EXCEPT !.pc = "failed"]
         ELSE /\ services' = [services EXCEPT ![k] = "ready"]
              /\ lifespan' = IF k < Len(ServiceNames)
                             THEN [lifespan EXCEPT !.step = k + 1]
                             ELSE [lifespan EXCEPT !.pc = "serving", !.step = 1,
                                                   !.background = "scheduled"]
    /\ UNCHANGED lifespanFrame

\* start_background_tasks runs: the monitoring tasks, the engines when
\* trading is enabled, and update_metrics are created. Nothing keeps or
\* cancels them.
StartBackgroundTasks ==
    /\ lifespan.background = "scheduled"
    /\ lifespan.pc \in {"serving", "shutdown"}
    /\ lifespan' = [lifespan EXCEPT !.background =
                        IF lifespan.TRADING_ENABLED THEN "monitoring and engines"
                        ELSE "monitoring"]
    /\ UNCHANGED <<services, lifespanFrame>>

\* The server shuts down: the lifespan resumes after its yield.
BeginShutdown ==
    /\ lifespan.pc = "serving"
    /\ lifespan' = [lifespan EXCEPT !.pc = "shutdown", !.step = 1]
    /\ UNCHANGED <<services, lifespanFrame>>

\* The shutdown block awaits the shutdown() or disconnect() of the j-th
\* service of its list. One that raises ends the block: the except logs.
StopService(j) ==
    /\ lifespan.pc = "shutdown"
    /\ lifespan.step = j
    /\ j \in 1..Len(ShutdownOrder)
    /\ \E ok \in BOOLEAN :
         IF ~ok
         THEN /\ services' = [services EXCEPT ![ShutdownOrder[j]] = "raised"]
              /\ lifespan' = [lifespan EXCEPT !.pc = "exited"]
         ELSE /\ services' = [services EXCEPT ![ShutdownOrder[j]] = "closed"]
              /\ lifespan' = IF j < Len(ShutdownOrder)
                             THEN [lifespan EXCEPT !.step = j + 1]
                             ELSE [lifespan EXCEPT !.pc = "exited"]
    /\ UNCHANGED lifespanFrame

\* What health_check() of a service can answer: True or False while it is
\* connected, False or an exception once it has been disconnected.
HealthAnswers(state) ==
    IF state = "ready" THEN {"ok", "error", "raise"} ELSE {"error", "raise"}

\* GET /health while the application serves requests: the database, Redis and
\* Solana clients are asked in turn; an exception gives the 503 response.
HealthCheck ==
    /\ lifespan.pc \in {"serving", "shutdown"}
    /\ \E db \in HealthAnswers(services[1]), redis \in HealthAnswers(services[2]),
          solana \in HealthAnswers(services[3]) :
         lifespan' = [lifespan EXCEPT !.health =
                         IF "raise" \in {db, redis, solana} THEN "503"
                         ELSE IF {db, redis, solana} = {"ok"} THEN "healthy"
                         ELSE "unhealthy"]
    /\ UNCHANGED <<services, lifespanFrame>>

LifespanNext ==
    \/ \E k \in 1..Len(ServiceNames) : StartService(k)
    \/ StartBackgroundTasks
    \/ HealthCheck
    \/ BeginShutdown
    \/ \E j \in 1..Len(ShutdownOrder) : StopService(j)

\* The engine is started with trading enabled or not.
LifecycleInit ==
    /\ EngineInit /\ TradeInit /\ SnapshotInit /\ SelectionInit /\ RouteInit
    /\ LoopsInit /\ LookupIdle /\ NotifyInit /\ CommandInit
    /\ \E enabled \in BOOLEAN : LifespanAt(enabled)

Lifecycle == LifecycleInit /\ [][LifespanNext]_vars

\* ------------------------------------------------------- the /trade command

\* /trade commands followed.
MaxCommands == 3

\* context.args of the commands followed: none, a token alone, a token with
\* an amount, a token with a word that is no number.
ArgLists ==
    {<<>>, <<"m1">>, <<"m1", "1.5">>, <<"m2", "2">>, <<"m1", "all">>}

\* float(text) raises ValueError for a word.
FloatTextRaises(text) == text \notin {"1.5", "2"}

\* What the command leaves alone.
commandFrame ==
    <<settingsVars, engineVars, snapshotVars, selectionVars, routeVars,
      loopVars, lookupVars, notifyVars, lifespanVars>>

\* trade(update, context) handles one /trade command. With two arguments and
\* a numeric amount it calls execute_trade(token, amount) without await: the
\* call only creates the coroutine, whose body never runs, and subscripting
\* the coroutine with "status" raises TypeError, which the except answers.
\* task is the position of the coroutine among the calls, 0 when none.
TradeCommand(args) ==
    /\ Len(commands) < MaxCommands
    /\ IF Len(args) < 2
       THEN /\ commands' = Append(commands,
                    [args |-> args, reply |-> "Usage: /trade <token> <amount>",
                     task |-> 0])
            /\ UNCHANGED tasks
       ELSE IF FloatTextRaises(args[2])
       THEN /\ commands' = Append(commands,
                    [args |-> args, reply |-> "Error: ValueError", task |-> 0])
            /\ UNCHANGED tasks
       ELSE /\ tasks' = Append(tasks, [token |-> args[1], state |-> "pending",
                                       receipt |-> NoObject])
            /\ commands' = Append(commands,
                    [args |-> args, reply |-> "Error: TypeError",
                     task |-> Len(tasks) + 1])
    /\ UNCHANGED <<submitted, commandFrame>>

CommandNext == \E args \in ArgLists : TradeCommand(args)

Command == Init /\ [][CommandNext]_vars

\* ==================================================================== claims

\* C1: every persisted Signal has confidence >= MIN_SIGNAL_CONFIDENCE and
\* risk_score <= MAX_RISK_SCORE, for every configured pair of thresholds.
\* (Stated as claimed; the code compares the risk with the literal 0.8.)
C1_PersistedWithinThresholds ==
    \A i \in 1..Len(persisted) :
        /\ persisted[i].confidence >= MIN_SIGNAL_CONFIDENCE
        /\ persisted[i].overall_risk <= MAX_RISK_SCORE

\* C2: for every token at most one call of execute_trade is in flight
\* (dispatched and not yet returned) at any time.
C2_SingleFlight ==
    \A i, j \in 1..Len(tasks) :
        (i # j /\ InFlight(tasks[i]) /\ InFlight(tasks[j]))
            => tasks[i].token # tasks[j].token

\* C3: no Signal whose recommendation is HOLD is generated, persisted or
\* published.
C3_HoldNeverEmitted ==
    /\ signal # NoObject => signal.action # "HOLD"
    /\ \A i \in 1..Len(persisted) : persisted[i].action # "HOLD"
    /\ \A i \in 1..Len(published) : published[i].action # "HOLD"

\* C4: when the model call raises or its body is not parseable JSON,
\* get_ai_analysis does not raise (the candidate is not dropped by an exception)
\* and returns exactly HOLD, confidence 0.0, risk_score 1.0, time_horizon
\* "unknown".
C4_FailureYieldsSafeDefault ==
    (reply # NoObject /\ reply.outcome \in {"raise", "malformed"})
        => /\ ai_analysis = [recommendation |-> "HOLD", confidence |-> 0,
                             time_horizon |-> "unknown", risk_score |-> 100]
           /\ idx \notin failed

\* C4 witness: the model call has raised and get_ai_analysis has returned.
C4_Witness ==
    /\ pc = "decided"
    /\ reply # NoObject
    /\ reply.outcome = "raise"
    /\ ai_analysis # NoObject

\* A reply that is a JSON object and violates the Decision schema: a required
\* member is missing, the recommendation is none of the seven values, or the
\* confidence or the risk_score is no number in [0, 1].
InUnitInterval(v) == v[1] = "num" /\ v[2] >= 0 /\ v[2] <= 100
SchemaViolation(r) ==
    /\ r.outcome = "object"
    /\ \/ Absent \in {r.recommendation, r.confidence, r.risk_score, r.time_horizon}
       \/ r.recommendation \notin {Str(a) : a \in SignalAction}
       \/ ~InUnitInterval(r.confidence)
       \/ ~InUnitInterval(r.risk_score)

\* C5: every reply that violates the Decision schema yields the safe-default
\* Decision (HOLD, confidence 0.0, risk_score 1.0).
C5_SchemaViolationYieldsSafeDefault ==
    (reply # NoObject /\ SchemaViolation(reply))
        => /\ ai_analysis.recommendation = "HOLD"
           /\ ai_analysis.confidence = 0
           /\ ai_analysis.risk_score = 100

\* C6: the safe-default Decision is rejected by the gate under every configured
\* MIN_SIGNAL_CONFIDENCE: a candidate whose decision step failed yields no
\* Signal, persisted record or published message.
C6_SafeDefaultRejected ==
    (reply # NoObject /\ AiTryRaises(reply))
        => /\ signal = NoObject
           /\ pc \notin {"save", "broadcast"}
           /\ persisted = <<>>
           /\ published = <<>>

\* C6 witness: the decision step failed under a threshold of 0 and the gate
\* has returned.
C6_Witness ==
    /\ pc = "sleep60"
    /\ MIN_SIGNAL_CONFIDENCE = 0
    /\ reply # NoObject
    /\ reply.outcome = "malformed"
    /\ signal = NoObject

\* C7: a candidate whose snapshot is the zero-priced fallback yields no
\* persisted or published Signal, whatever the model answers.
C7_FallbackNeverEmitted ==
    price_src = "fallback" => (persisted = <<>> /\ published = <<>>)

\* C8: when a cycle reaches its cooldown, every selected candidate has been
\* taken through its pipeline, whichever candidates failed.
C8_SiblingsProcessed ==
    pc \in {"sleep60", "sleep30"} => processed = 1..Len(tokens)

\* C8 witness: the first of two candidates raised and the cycle completed with
\* the second one processed.
C8_Witness ==
    /\ pc = "sleep60"
    /\ Len(tokens) = 2
    /\ 1 \in failed
    /\ processed = {1, 2}

\* The gate has evaluated the decision of the candidate.
GateActed ==
    /\ reply # NoObject
    /\ ai_analysis.recommendation \in SignalAction
    /\ pc \in {"save", "broadcast", "sleep60"}

\* C9: the gate accepts exactly when confidence >= MIN_SIGNAL_CONFIDENCE and
\* risk_score <= MAX_RISK_SCORE, and an accepted BUY-class decision becomes a
\* Signal of direction BUY.
C9_GateAcceptsIffThresholds ==
    GateActed
        => /\ (signal # NoObject)
                <=> /\ ai_analysis.confidence >= MIN_SIGNAL_CONFIDENCE
                    /\ ai_analysis.risk_score <= MAX_RISK_SCORE
           /\ (signal # NoObject
                /\ ai_analysis.recommendation \in {"STRONG_BUY", "BUY", "WEAK_BUY"})
                => signal.type = "BUY"

\* Direction and recommendation of a Signal, record or payload agree.
DirectionAgrees(s) ==
    /\ s.type \in {"BUY", "SELL"}
    /\ s.type = "BUY" <=> s.action \in {"STRONG_BUY", "BUY", "WEAK_BUY"}

\* C10: for every emitted Signal the direction is BUY if and only if the
\* recommendation is STRONG_BUY, BUY or WEAK_BUY, and SELL otherwise.
C10_DirectionMapping ==
    /\ signal # NoObject => DirectionAgrees(signal)
    /\ \A i \in 1..Len(persisted) : DirectionAgrees(persisted[i])
    /\ \A i \in 1..Len(published) : DirectionAgrees(published[i])

\* C10 witness: a WEAK_BUY was persisted as BUY and published.
C10_Witness ==
    /\ persisted # <<>>
    /\ published # <<>>
    /\ persisted[1].action = "WEAK_BUY"
    /\ persisted[1].type = "BUY"
    /\ published[1].action = "WEAK_BUY"

\* C11: of two get_price_data calls for one mint less than 30 seconds apart,
\* the first of which wrote its snapshot to the cache, the second queries
\* neither price source, and unless the cache read itself raises it returns
\* the snapshot the first one cached.
C11_CacheHitIdempotence ==
    \A i, j \in 1..Len(calls) :
        ( /\ i < j
          /\ calls[i].mint = calls[j].mint
          /\ calls[i].call.wrote
          /\ calls[j].at - calls[i].at < CacheTtl )
        => /\ calls[j].call.primary = 0
           /\ calls[j].call.secondary = 0
           /\ calls[j].call.cache_read # "raised"
                  => /\ calls[j].call.src = "cache"
                     /\ calls[j].call.result = calls[i].call.result

\* C11 witness: a call cached an enriched snapshot and a call for the same
\* mint twenty seconds later was answered from the cache.
C11_Witness ==
    /\ Len(calls) = 2
    /\ calls[1].mint = calls[2].mint
    /\ calls[1].call.wrote
    /\ calls[1].call.src = "enriched"
    /\ calls[2].at = calls[1].at + 20
    /\ calls[2].call.src = "cache"

\* The mint is in the list.
HasMint(rows, m) == \E i \in 1..Len(rows) : rows[i].mint = m

\* C12: whatever the two sources answer, the list get_tokens_to_analyze
\* returns holds no mint twice and at most 25 tokens.
C12_UniqueAndCapped ==
    query.returned =>
        /\ Len(candidates) <= 25
        /\ \A i, j \in 1..Len(candidates) :
               candidates[i].mint = candidates[j].mint => i = j

\* C12 witness: the sources answered with more than 25 distinct mints, one of
\* them in both lists, and 25 tokens were returned.
C12_Witness ==
    /\ query.returned
    /\ Len(candidates) = 25
    /\ Len(query.db) = 26
    /\ query.db[1].mint # query.db[2].mint
    /\ \E i \in 1..Len(query.trending) : HasMint(query.db, query.trending[i].mint)

\* C13: a returned token whose mint is both in the tokens query's rows and in
\* the trending list is the row of the tokens query.
\* (Stated as claimed; the dict comprehension keeps the later, trending, dict.)
C13_PersistedEntryWins ==
    query.returned =>
        \A i \in 1..Len(candidates) :
            ( /\ HasMint(query.db, candidates[i].mint)
              /\ HasMint(query.trending, candidates[i].mint) )
            => candidates[i].source = "db"

\* C14: when get_trending_tokens raises and the tokens query succeeded, the
\* rows of the tokens query are returned, deduplicated and capped.
\* (Stated as claimed; one try covers both sources and its except returns [].)
C14_TrendingFailureKeepsPersisted ==
    (query.returned /\ query.dbOk /\ ~query.trendingOk)
        => candidates = UniqueTokens(query.db)

\* The dict has the key is_fallback, with the value True.
MarkedFallback(data) ==
    /\ "is_fallback" \in DOMAIN data
    /\ data.is_fallback = TRUE

\* C15: every get_price_data call returns a dict; the dict returned when the
\* price could not be fetched is marked is_fallback, a fetched one is not.
\* (Stated as claimed; no dict the code builds has an is_fallback key.)
C15_FallbackIsMarked ==
    \A i \in 1..Len(calls) :
        MarkedFallback(calls[i].call.result) <=> (calls[i].call.src = "fallback")

\* C16: a broadcast_signal whose publish fails changes no row of the signals
\* table, is followed by no second save of the Signal, and raises nothing into
\* the loop: the for loop goes on to the next token or to the cooldown.
C16_PublishFailureFrame ==
    [][(pc = "broadcast" /\ published' = published)
           => /\ persisted' = persisted
              /\ failed' = failed
              /\ pc' \in {"price", "sleep60"}]_vars

\* C16 witness: a Signal was saved, its publish failed, and the pipeline ended
\* with the row in place and no failure recorded.
C16_Witness ==
    /\ pc = "sleep60"
    /\ signal # NoObject
    /\ persisted = <<SignalRecord(signal)>>
    /\ published = <<>>
    /\ failed = {}

\* C17: a call of get_best_jupiter_route whose request did not yield a quote
\* has sent the request more than once and has returned an error value.
\* (Stated as claimed; the code sends one request, without a timeout, and
\* returns whatever JSON body it got.)
C17_FailureRetriedThenRouteError ==
    \A i \in 1..Len(routes) :
        (routes[i].state = "done" /\ routes[i].reply # "quote")
        => /\ routes[i].requests > 1
           /\ "error" \in DOMAIN routes[i].result

\* The calls of execute_trade that have returned.
Returned == {i \in 1..Len(tasks) : ~InFlight(tasks[i])}

\* C18: every call of execute_trade that has returned has returned one dict:
\* either status success with the call's token and the identifier of a
\* transaction sent for it, or status error with the error text; and no more
\* transactions were sent than calls have returned.
C18_OneReceiptNoRetry ==
    /\ \A i \in Returned :
           LET r == tasks[i].receipt
           IN \/ /\ r.status = "success"
                 /\ r.token = tasks[i].token
                 /\ r.tx_hash \in 1..Len(submitted)
                 /\ submitted[r.tx_hash] = tasks[i].token
              \/ /\ r.status = "error"
                 /\ "error" \in DOMAIN r
    /\ \A i, j \in Returned :
           ( /\ tasks[i].receipt.status = "success"
             /\ tasks[j].receipt.status = "success"
             /\ tasks[i].receipt.tx_hash = tasks[j].receipt.tx_hash ) => i = j
    /\ Len(submitted) <= Cardinality(Returned)

\* C18 witness: one call returned a success receipt, another one failed after
\* its transaction was sent, and two transactions were sent in all.
C18_Witness ==
    /\ Len(submitted) = 2
    /\ Cardinality(Returned) = 2
    /\ \E i, j \in Returned :
           /\ tasks[i].receipt.status = "success"
           /\ tasks[j].receipt.status = "error"

\* C19: a candidate one of whose analyzer calls raised is not dropped: its
\* pipeline goes on to the decision with a default for that half.
\* (Stated as claimed; analyze_token catches neither call, the exception ends
\* the candidate's iteration.)
C19_AnalyzerFailureContained ==
    (analyzers.technical = "raised" \/ analyzers.sentiment = "raised")
        => idx \notin failed

\* C20: while the technical analyzer's call has not completed, get_sentiment
\* has been called.
\* (Stated as claimed; get_sentiment is called after analyze has returned.)
C20_AnalyzersConcurrent ==
    analyzers.technical = "running" => analyzers.sentiment # "idle"

\* C21: the loop enters its selection step from the start of the task, or from
\* a sleep that lasted 60 seconds after the for loop ended, or from a sleep
\* that lasted 30 seconds after the outer except; in no other way.
C21_CoolingBeforeSelecting ==
    [][(pc' = "select" /\ pc # "select")
           => \/ pc = "idle"
              \/ pc = "sleep60" /\ now' >= now + 60
              \/ pc = "sleep30" /\ now' >= now + 30]_vars

\* C21 witness: a cycle processed its candidate, and the selection of the next
\* cycle is entered 60 seconds later.
C21_Witness ==
    /\ pc = "select"
    /\ cycle = 1
    /\ processed = {1}
    /\ now = 60

\* C22: a cycle whose selection failed is followed by the 30-second sleep.
\* (Stated as claimed; get_tokens_to_analyze turns the failure into an empty
\* list, after which the loop sleeps 60 seconds.)
C22_SelectionFailureShortCooldown ==
    (selection_failed /\ pc \in {"sleep60", "sleep30"}) => pc = "sleep30"

\* C23: the pipeline of a further candidate of the cycle is started only while
\* is_running holds.
\* (Stated as claimed; the for loop does not read is_running.)
C23_StopObservedBetweenCandidates ==
    [][(idx >= 1 /\ idx' = idx + 1) => is_running]_vars

\* C24: the loop has ended only if is_running was set to False, which only
\* stop() does; and while is_running holds, the cycle after the current one is
\* started in the end, whatever failed in the current one.
C24_LoopRunsUntilStopped ==
    /\ [](pc = "stopped" => ~is_running)
    /\ \A c \in 0..(MaxRounds - 1) :
           (is_running /\ cycle = c) ~> (~is_running \/ cycle = c + 1)

\* C24 witness: the candidate of the first cycle raised, nobody called stop(),
\* and the loop is selecting for its second cycle.
C24_Witness ==
    /\ is_running
    /\ pc = "select"
    /\ cycle = 1
    /\ failed = {1}

\* The steps of one candidate's pipeline, in the claimed order.
Stages == <<"price", "technical", "sentiment", "ai", "decided", "save", "broadcast">>
StageOf(p) == CHOOSE k \in 1..Len(Stages) : Stages[k] = p
IsStage(p) == \E k \in 1..Len(Stages) : Stages[k] = p

\* C25: a candidate's pipeline starts with the snapshot and moves from a stage
\* to the next one only; and no snapshot handed to a pipeline comes from the
\* cache, so none was written in an earlier cycle.
C25_StagesInOrderFreshSnapshot ==
    [][/\ (IsStage(pc') /\ pc' # pc)
           => IF IsStage(pc) /\ idx' = idx
              THEN StageOf(pc') = StageOf(pc) + 1
              ELSE pc' = "price"
       /\ price_src' # "cache"]_vars

\* C25 witness: the second cycle, 60 seconds after the first one cached the
\* candidate's snapshot, fetched it anew and the decision made on it was
\* persisted after the first cycle's.
C25_Witness ==
    /\ cycle = 2
    /\ pc = "sleep60"
    /\ Len(persisted) = 2
    /\ price_src = "enriched"
    /\ cache["m1"] # NoObject
    /\ cache["m1"].set_at = 60

\* C26: every step of the engine leaves the signals table as it was or adds
\* one row with status ACTIVE after the rows it held, which stay as they were.
C26_AppendOnly ==
    [][\/ persisted' = persisted
       \/ /\ Len(persisted') = Len(persisted) + 1
          /\ SubSeq(persisted', 1, Len(persisted)) = persisted
          /\ persisted'[Len(persisted')].status = "ACTIVE"]_vars

\* C26 witness: the signals of both candidates of a cycle were saved, the
\* second after the first.
C26_Witness ==
    /\ Len(tokens) = 2
    /\ Len(persisted) = 2
    /\ persisted[1].token_mint = tokens[1].mint
    /\ persisted[2].token_mint = tokens[2].mint

\* C27: every message published on trading_signals is the signal of a row
\* that was inserted into signals before: a signal whose insert failed is
\* not published.
C27_PublishedWasPersisted ==
    \A i \in 1..Len(published) :
        \E j \in 1..Len(persisted) :
            /\ persisted[j].token_mint = published[i].token_mint
            /\ persisted[j].action = published[i].action
            /\ persisted[j].confidence = published[i].confidence

\* C28: whatever the order of the calls of start_signal_generation() and
\* stop(), at most one loop is selecting, processing or cooling at a time.
C28_AtMostOneLoop ==
    Cardinality({i \in 1..Len(loops) : Active(loops[i])}) <= 1

\* C29: once stop() has been called on a started loop, the loop reaches
\* Stopped; and from Stopped nothing moves any more: the loop selects nothing,
\* starts no cycle, persists and publishes nothing.
C29_StopLeadsToStopped ==
    /\ (~is_running /\ pc # "idle") ~> (pc = "stopped")
    /\ [][pc = "stopped"
             => /\ pc' = "stopped"
                /\ UNCHANGED <<cycle, tokens, persisted, published>>]_vars

\* C29 witness: the loop was stopped in its second cycle, after a signal of
\* each cycle was saved.
C29_Witness ==
    pc = "stopped" /\ ~is_running /\ cycle = 2 /\ Len(persisted) = 2

C31_CacheHoldsFetchedSnapshots ==
    /\ \A i \in 1..Len(calls) :
           LET c == calls[i].call
           IN /\ c.src \in {"partial", "enriched"} => c.wrote
              /\ c.src = "fallback" => ~c.wrote
              /\ c.wrote => (c.primary = 1 /\ c.secondary = 1)
    /\ \A m \in Mints :
           cache[m] # NoObject
               => \E i \in 1..Len(calls) :
                      /\ calls[i].mint = m
                      /\ calls[i].at = cache[m].set_at
                      /\ calls[i].call.src \in {"partial", "enriched"}
                      /\ cache[m].text = JsonDumps(calls[i].call.result)

\* C31 witness: a call cached the snapshot it fetched; after the key expired
\* a second call for the mint got no price and returned the fallback, and the
\* key still holds the first snapshot.
C31_Witness ==
    /\ Len(calls) = 2
    /\ calls[1].mint = "m1" /\ calls[2].mint = "m1"
    /\ calls[1].call.src = "partial"
    /\ calls[2].call.src = "fallback" /\ calls[2].call.primary = 1
    /\ cache["m1"] # NoObject
    /\ cache["m1"].set_at = calls[1].at
    /\ JsonLoads(cache["m1"].text) = calls[1].call.result

\* C34: a snapshot returned from the cache was written by a call for the same
\* mint at most 30 seconds earlier; a call made more than 30 seconds after
\* every write of its key is not answered from the cache, and having missed
\* the key it queries the primary source.
C34_CachedAtMostThirtySeconds ==
    \A j \in 1..Len(calls) :
        LET writes == {i \in 1..(j - 1) : /\ calls[i].mint = calls[j].mint
                                          /\ calls[i].call.wrote}
        IN /\ calls[j].call.src = "cache"
                  => \E i \in writes :
                         /\ calls[j].at - calls[i].at <= 30
                         /\ calls[j].call.result = calls[i].call.result
           /\ (\A i \in writes : calls[j].at - calls[i].at > 30)
                  => /\ calls[j].call.cache_read # "hit"
                     /\ calls[j].call.cache_read = "miss"
                            => calls[j].call.primary = 1

\* C34 witness: a call cached a snapshot and a call for the same mint forty
\* seconds later missed the key and queried both sources again.
C34_Witness ==
    /\ Len(calls) = 2
    /\ calls[1].mint = calls[2].mint
    /\ calls[1].call.wrote
    /\ calls[2].at = calls[1].at + 40
    /\ calls[2].call.cache_read = "miss"
    /\ calls[2].call.primary = 1
    /\ calls[2].call.src = "enriched"

\* The call missed the cache and the primary source gave a usable answer.
Fetched(l) ==
    /\ l.returned
    /\ l.call.cache_read = "miss"
    /\ ~PrimaryFails(l.behaviour.primary)

\* C32: a call whose cache read raises still queries the primary source, and
\* a call whose cache write raises after the primary source answered returns
\* the snapshot it fetched.
\* (Stated as claimed; both exceptions reach the outer except in the code.)
C32_CacheFailureKeepsPrice ==
    (lookup # NoObject /\ lookup.returned)
        => /\ ~lookup.behaviour.readOk => lookup.call.primary = 1
           /\ (Fetched(lookup) /\ ~lookup.behaviour.writeOk)
                  => lookup.call.result =
                         Enrich(PrimaryData(lookup.behaviour.primary),
                                lookup.behaviour.secondary)

\* The ways the enrichment fails: an exception, a status other than 200, a
\* body without pairs, a body whose numbers float() rejects.
EnrichmentFails(s) == s \in {"raise", "status", "nopairs", "nullfdv"}

\* C33: when the primary source answered and the enrichment failed, the call
\* (its cache working) returns the primary source's price with the market cap
\* unset, and the key holds exactly that snapshot, set at the time of the call.
C33_EnrichmentFailureKeepsPartial ==
    ( /\ lookup # NoObject
      /\ Fetched(lookup)
      /\ EnrichmentFails(lookup.behaviour.secondary)
      /\ lookup.behaviour.writeOk )
        => /\ lookup.call.result = PrimaryData(lookup.behaviour.primary)
           /\ lookup.call.result.market_cap = None
           /\ lookup.call.src = "partial"
           /\ lookup.call.wrote
           /\ cache[lookup.mint] # NoObject
           /\ cache[lookup.mint].set_at = now
           /\ JsonLoads(cache[lookup.mint].text) = lookup.call.result

\* C33 witness: the primary source gave a price, the enrichment raised, and
\* the call returned and cached the price with no market cap, replacing the
\* expired key.
C33_Witness ==
    /\ lookup # NoObject
    /\ Fetched(lookup)
    /\ lookup.behaviour.primary = "price"
    /\ lookup.behaviour.secondary = "raise"
    /\ lookup.call.result = [price |-> 1, market_cap |-> None]
    /\ now = 40
    /\ cache["m1"] = [text |-> JsonDumps(lookup.call.result), set_at |-> 40]

\* C35: for every payload of the engine the listener has handled, the keys the
\* listener reads are keys of the payload, and every user subscribed to signal
\* notifications got a send attempt; and a message that is not JSON does not
\* keep the listener from handling the messages after it.
C35_EverySubscriberAttempted ==
    \A i \in 1..Len(deliveries) :
        (IsPayload(published[i]) /\ deliveries[i].users # NoObject)
            => /\ ConsumerKeys \subseteq DOMAIN PayloadLoads(PayloadDumps(published[i]))
               /\ \A k \in 1..Len(deliveries[i].users) :
                      \E a \in 1..Len(deliveries[i].attempts) :
                          deliveries[i].attempts[a].user = deliveries[i].users[k]

\* C36: when the lifespan has ended, after its shutdown block or after a
\* startup that failed part-way, no service that was connected or initialized
\* is left without its shutdown() or disconnect() having been called.
C36_EveryServiceReleased ==
    lifespan.pc \in {"exited", "failed"}
        => \A k \in 1..Len(ServiceNames) : services[k] # "ready"

\* The reply the command gives for the dict execute_trade returned.
ReplyFor(receipt) ==
    IF receipt.status = "success" THEN "Trade executed" ELSE "Trade failed"

\* C37: a handled /trade command with fewer than two arguments was answered
\* with the usage text and called execute_trade not at all; one with a token
\* and a numeric amount has one call of execute_trade that ran to its return,
\* and was answered according to the dict that call returned.
C37_TradeCommandOutcome ==
    \A i \in 1..Len(commands) :
        LET c == commands[i]
        IN IF Len(c.args) < 2
           THEN c.reply = "Usage: /trade <token> <amount>" /\ c.task = 0
           ELSE ~FloatTextRaises(c.args[2])
                    => /\ c.task \in 1..Len(tasks)
                       /\ tasks[c.task].token = c.args[1]
                       /\ tasks[c.task].state = "done"
                       /\ c.reply = ReplyFor(tasks[c.task].receipt)

====
